---- MODULE Spec2Model ----
(***************************************************************************)
(* Model of the value-marshalling core of SOCI:                            *)
(*   - the PostgreSQL bulk "use" binder                                    *)
(*     (src/src/backends/postgresql/vector-use-type.cpp), specification    *)
(*     Spec;                                                               *)
(*   - the Firebird decimal text parser str2dec                            *)
(*     (src/include/private/firebird/common.h), specification SpecDec.     *)
(***************************************************************************)
EXTENDS Integers, Sequences, FiniteSets, TLC

(***************************************************************************)
(* Bounds of the model.                                                    *)
(***************************************************************************)
\* longest caller vector
MaxLen == 2
\* std::size_t is modelled with SizeBits bits (arithmetic modulo 2^SizeBits)
SizeBits == 3
\* most pre_use calls and changes the caller makes to the vector or to *end
\* after construction, together, in one behaviour
MaxSteps == 2

\* most entries the pool can hold before an allocation fails (finite memory)
MaxPool == MaxLen + 1

SizeMod == 2 ^ SizeBits

Min(a, b) == IF a < b THEN a ELSE b

(***************************************************************************)
(* Exchange types (enum exchange_type) and the element values used.        *)
(***************************************************************************)
IntTypes ==
    {"x_int8", "x_uint8", "x_int16", "x_uint16",
     "x_int32", "x_uint32", "x_int64", "x_uint64"}

StringTypes == {"x_stdstring", "x_xmltype", "x_longstring"}

\* the cases of the switch in full_size() / pre_use()
SupportedTypes == {"x_char", "x_double", "x_stdtm"} \cup IntTypes \cup StringTypes

\* exchange types that reach the default: branch
UnsupportedTypes == {"x_statement", "x_rowid", "x_blob"}

\* element types the caller's vector takes in the model
BindTypes == {"x_int32", "x_stdstring", "x_blob"}

\* the element the caller stores at index i (0-based) of a vector of the
\* given exchange type: 10, -20, 30, ... or "a", "aa", ...
ElemAt(t, i) ==
    CASE t \in IntTypes    -> IF i % 2 = 0 THEN 10 * (i + 1) ELSE -10 * (i + 1)
      [] t \in StringTypes -> [j \in 1..(i + 1) |-> "a"]
      [] t = "x_char"      -> "a"
      [] OTHER             -> 0

\* the caller's vectors: every length up to n
VectorsUpTo(t, n) == {[j \in 1..len |-> ElemAt(t, j - 1)] : len \in 0..n}

\* what a read past the end of the vector may find there
GarbageOf(t) ==
    CASE t \in IntTypes    -> {-7}
      [] t \in StringTypes -> {<<"?">>}
      [] t = "x_char"      -> {"?"}
      [] OTHER             -> {0}

(***************************************************************************)
(* Text rendering of one element (the body of each case of pre_use).       *)
(***************************************************************************)
DigitChars == <<"0", "1", "2", "3", "4", "5", "6", "7", "8", "9">>

RECURSIVE DecNat(_)
\* printf's decimal digits of a natural number
DecNat(n) ==
    IF n < 10 THEN <<DigitChars[n + 1]>>
    ELSE Append(DecNat(n \div 10), DigitChars[(n % 10) + 1])

\* "%d" / "%u"
Dec(x) == IF x < 0 THEN <<"-">> \o DecNat(-x) ELSE DecNat(x)

\* std::numeric_limits<T>::digits10
Digits10(t) ==
    CASE t \in {"x_int8", "x_uint8"}   -> 2
      [] t \in {"x_int16", "x_uint16"} -> 4
      [] t \in {"x_int32", "x_uint32"} -> 9
      [] t = "x_int64"                 -> 18
      [] t = "x_uint64"                -> 19

\* (mutant) bufSize without the byte for the sign
BufSizeNoSign(t) == Digits10(t) + 2

\* bufSize of the integer cases
BufSize(t) == IF t = "x_uint64" THEN Digits10(t) + 2 ELSE Digits10(t) + 3

\* snprintf(buf, bufSize, ...): at most bufSize - 1 characters are stored
Snprintf(bufSize, s) == SubSeq(s, 1, Min(Len(s), bufSize - 1))

\* the text stored in the freshly allocated buffer for element x
\* (x_double and x_stdtm format through functions defined outside these
\* files and are not bound in the model)
Render(t, x) ==
    CASE t = "x_char"      -> <<x>>
      [] t \in StringTypes -> x
      [] t \in IntTypes    -> Snprintf(BufSize(t), Dec(x))

(***************************************************************************)
(* State.                                                                  *)
(***************************************************************************)
VARIABLES
    \* ---- the caller's objects
    v,                 \* the std::vector bound (data_ points at it)
    vtype,             \* its exchange type
    endv,              \* the caller's std::size_t end variable (*end_)
    \* ---- postgresql_vector_use_type_backend
    bound,             \* a bind_by_*_bulk call has set data_, type_, begin_, end_
    type_, begin_, end_, end_var_, position_, name_,
    buffers_,          \* std::vector<char *>: 0 is NULL, k > 0 is heap[k]
    \* ---- the heap and the statement
    heap,              \* every char array allocated: its text, times deleted
    useByPosBuffers_, useByNameBuffers_,
    crashed,           \* the process was terminated by undefined behaviour
    \* ---- what the last call did (observation only)
    op, outcome, result, reads, indReads, callInd, poolBase, heapBase,
    \* ---- how much of the behaviour's budget is used
    nSteps,
    \* ---- str2dec: arguments and results of the last call
    dtext, dkind, dret, dout, dscale,
    \* ---- format_decimal: arguments and result of the last call
    fx, fscale, ftext, fdone,
    \* ---- to_isc / from_isc
    ctype,             \* T1: "int" (an integer type) or "double"
    cval,              \* the logical value *val handed to to_isc
    var_sqltype, var_sqlscale, var_sqldata,   \* the XSQLVAR slot *var
    x_scale,           \* to_isc's third argument
    tout,              \* how the to_isc call ended ("none": not called)
    fout, fret,        \* how the from_isc call ended, and what it returned
    \* ---- parse_decimal
    pval,              \* the object *val: whether written, and its bits
    pout,              \* how the parse_decimal call ended ("none": not called)
    \* ---- the integer cases of pre_use on elements of full width
    btype,             \* the exchange type of the element
    bvalue,            \* the element's bits
    btext,             \* the text in the element's buffer
    bdone              \* whether the element has been rendered

binderVars ==
    <<v, vtype, endv, bound, type_, begin_, end_, end_var_, position_, name_,
      buffers_, heap, useByPosBuffers_, useByNameBuffers_, crashed,
      op, outcome, result, reads, indReads, callInd, poolBase, heapBase,
      nSteps>>

decVars == <<dtext, dkind, dret, dout, dscale>>

fmtVars == <<fx, fscale, ftext, fdone>>

\* the variables of the conversion functions of firebird/common.h
iscVars ==
    <<ctype, cval, var_sqltype, var_sqlscale, var_sqldata, x_scale, tout, fout, fret>>

parseVars == <<pval, pout>>

bufVars == <<btype, bvalue, btext, bdone>>

auxVars == <<parseVars, bufVars>>

pureVars == <<decVars, fmtVars, iscVars, auxVars>>

vars == <<binderVars, pureVars>>

\* no indicator array (ind == NULL)
NoInd == [null |-> TRUE, a |-> <<>>]

\* the indicator arguments: NULL, or an array parallel to the vector
IndArgs == {NoInd} \cup {[null |-> FALSE, a |-> a] : a \in [1..Len(v) -> {"i_ok", "i_null"}]}

obsVars == <<op, outcome, result, reads, indReads, callInd, poolBase, heapBase>>

\* the observation of a call that is not pre_use
Observe(o, oc, r) ==
    /\ op' = o
    /\ outcome' = oc
    /\ result' = r
    /\ reads' = {}
    /\ indReads' = {}
    /\ callInd' = NoInd
    /\ poolBase' = Len(buffers_)
    /\ heapBase' = Len(heap)

(***************************************************************************)
(* full_size(): the vector's current length, or the unsupported-type error *)
(***************************************************************************)
\* (mutant) full_size() with no default: branch
FullSizeNeverThrows(t) == FALSE

FullSizeThrows(t) == t \notin SupportedTypes

full_size == Len(v)

(***************************************************************************)
(* bind_by_pos_bulk / bind_by_name_bulk                                    *)
(***************************************************************************)
\* the assignments both binds share; end_var_ = full_size() comes last, so
\* the error leaves end_var_ as it was.  The statement binds each use
\* element once, so only the first bind of a binder is modelled.
BindCommon(begin, endp) ==
    /\ ~crashed
    /\ ~bound
    /\ bound' = TRUE
    /\ type_' = vtype
    /\ begin_' = begin
    /\ end_' = endp
    /\ IF FullSizeThrows(vtype)
       THEN /\ end_var_' = end_var_
            /\ Observe("bind", "unsupported", 0)
       ELSE /\ end_var_' = full_size
            /\ Observe("bind", "ok", 0)
    /\ UNCHANGED <<v, vtype, endv, buffers_, heap, useByPosBuffers_,
                   useByNameBuffers_, crashed, nSteps, pureVars>>

bind_by_pos_bulk(position, begin, endp) ==
    /\ BindCommon(begin, endp)
    /\ position_' = position
    /\ name_' = name_

bind_by_name_bulk(name, begin, endp) ==
    /\ BindCommon(begin, endp)
    /\ name_' = name
    /\ position_' = position_

(***************************************************************************)
(* pre_use                                                                 *)
(***************************************************************************)
\* (mutant) the loop ignores begin_ and starts at the vector's first element
FirstIndexFromZero == Min(0, begin_)

\* the loop's first index: i = begin_
FirstIndex == begin_

\* (mutant) a caller-supplied end of 0 is taken as the bound: an empty range
ResolveEndZeroIsEmpty == IF end_ # "NULL" THEN endv ELSE end_var_

\* the effective upper bound vend
ResolveEnd == IF end_ # "NULL" /\ endv # 0 THEN endv ELSE end_var_

\* (mutant) the indicator is indexed relative to the range: ind[i - begin_]
IndIsNullRelative(ind, i, gi) ==
    /\ ~ind.null
    /\ (IF i - begin_ < Len(ind.a) THEN ind.a[i - begin_ + 1] ELSE gi) = "i_null"

\* ind != NULL && ind[i] == i_null, for the absolute index i; an index past
\* the indicator array reads whatever lies there (gi)
IndIsNull(ind, i, gi) ==
    /\ ~ind.null
    /\ (IF i < Len(ind.a) THEN ind.a[i + 1] ELSE gi) = "i_null"

\* the cases that evaluate v[i] before operator new (v[i].size() sizes the
\* array); the others allocate a fixed size first and read v[i] to fill it
ReadsBeforeNew(t) == t \in StringTypes

RECURSIVE PreUseLoop(_, _, _, _)
\* for (i = begin_; i != vend; ++i), from index i at iteration k of the call.
\* st: the pool, the heap and the reads so far.  c: the call's upper bound
\* and indicator argument, and the choices the environment makes: the
\* iteration failAt whose allocation throws std::bad_alloc (in operator new
\* or in push_back), and what an out-of-range read yields (a crash, or the
\* element g / the indicator gi).
PreUseLoop(i, k, st, c) ==
    IF i = c.vend THEN [st EXCEPT !.out = "ok"]
    ELSE
    LET next   == (i + 1) % SizeMod
        indOOB == ~c.ind.null /\ i >= Len(c.ind.a)
        st1    == [st EXCEPT !.indReads = IF c.ind.null THEN @ ELSE @ \cup {i}]
        vOOB   == i >= Len(v)
        x      == IF vOOB THEN c.g ELSE v[i + 1]
        stR    == [st1 EXCEPT !.reads = @ \cup {i}]
        stA    == [stR EXCEPT !.heap = Append(@, [text |-> Render(type_, x), frees |-> 0])]
        stN    == [st1 EXCEPT !.heap = Append(@, [text |-> <<>>, frees |-> 0])]
    IN
    IF indOOB /\ c.oobCrash THEN [st1 EXCEPT !.out = "crash"]
    ELSE IF IndIsNull(c.ind, i, c.gi)
    THEN \* buf = NULL; buffers_.push_back(buf)
         IF k = c.failAt THEN [st1 EXCEPT !.out = "bad_alloc"]
         ELSE PreUseLoop(next, k + 1, [st1 EXCEPT !.bufs = Append(@, 0)], c)
    ELSE IF type_ \notin SupportedTypes
    THEN \* default: throw soci_error
         [st1 EXCEPT !.out = "unsupported"]
    ELSE IF ReadsBeforeNew(type_)
    THEN IF vOOB /\ c.oobCrash THEN [stR EXCEPT !.out = "crash"]
         ELSE IF k = c.failAt /\ c.failIn = "new" THEN [stR EXCEPT !.out = "bad_alloc"]
         ELSE IF k = c.failAt THEN [stA EXCEPT !.out = "bad_alloc"]
         ELSE PreUseLoop(next, k + 1, [stA EXCEPT !.bufs = Append(@, Len(stA.heap))], c)
    ELSE IF k = c.failAt /\ c.failIn = "new" THEN [st1 EXCEPT !.out = "bad_alloc"]
         ELSE IF vOOB /\ c.oobCrash THEN [stN EXCEPT !.out = "crash", !.reads = @ \cup {i}]
         ELSE IF k = c.failAt THEN [stA EXCEPT !.out = "bad_alloc"]
         ELSE PreUseLoop(next, k + 1, [stA EXCEPT !.bufs = Append(@, Len(stA.heap))], c)

\* number of iterations of the loop when nothing stops it
LoopCount == (ResolveEnd - begin_) % SizeMod

\* some index of the loop lies past the end of the vector
LoopLeavesVector == begin_ > ResolveEnd \/ (begin_ < ResolveEnd /\ ResolveEnd > Len(v))

\* &buffers_[0]
AddrOfFirst(bufs) == IF Len(bufs) > 0 THEN "buffers_0" ELSE "invalid"

pre_use(ind, failAt, failIn, oobCrash, g, gi) ==
    LET c  == [vend |-> ResolveEnd, ind |-> ind, failAt |-> failAt, failIn |-> failIn,
               oobCrash |-> oobCrash, g |-> g, gi |-> gi]
        s0 == [bufs |-> buffers_, heap |-> heap, reads |-> {}, indReads |-> {}, out |-> "run"]
        r  == PreUseLoop(FirstIndex, 0, s0, c)
    IN
    /\ ~crashed
    /\ bound
    /\ nSteps < MaxSteps
    /\ nSteps' = nSteps + 1
    /\ buffers_' = r.bufs
    /\ heap' = r.heap
    /\ crashed' = (r.out = "crash")
    /\ IF r.out = "ok" /\ position_ > 0
       THEN useByPosBuffers_' = [useByPosBuffers_ EXCEPT ![position_] = AddrOfFirst(r.bufs)]
       ELSE useByPosBuffers_' = useByPosBuffers_
    /\ IF r.out = "ok" /\ ~(position_ > 0)
       THEN useByNameBuffers_' = [useByNameBuffers_ EXCEPT ![name_] = AddrOfFirst(r.bufs)]
       ELSE useByNameBuffers_' = useByNameBuffers_
    /\ op' = "pre_use"
    /\ outcome' = r.out
    /\ result' = 0
    /\ reads' = r.reads
    /\ indReads' = r.indReads
    /\ callInd' = ind
    /\ poolBase' = Len(buffers_)
    /\ heapBase' = Len(heap)
    /\ UNCHANGED <<v, vtype, endv, bound, type_, begin_, end_, end_var_,
                   position_, name_, pureVars>>

(***************************************************************************)
(* size                                                                    *)
(***************************************************************************)
\* (mutant) size() without the check against end_var_
SizeValueNoDetect ==
    IF end_ # "NULL" /\ endv # 0 THEN (endv - begin_) % SizeMod ELSE end_var_

\* (mutant) size() clamping the extent to the vector's length
SizeValueClamped ==
    IF full_size # end_var_ THEN full_size
    ELSE IF end_ # "NULL" /\ endv # 0 THEN Min((endv - begin_) % SizeMod, full_size)
    ELSE end_var_

\* the value size() returns when full_size() does not throw
SizeValue ==
    IF full_size # end_var_ THEN full_size
    ELSE IF end_ # "NULL" /\ endv # 0 THEN (endv - begin_) % SizeMod
    ELSE end_var_

size ==
    /\ ~crashed
    /\ bound
    /\ IF FullSizeThrows(type_)
       THEN Observe("size", "unsupported", 0)
       ELSE Observe("size", "ok", SizeValue)
    /\ UNCHANGED <<v, vtype, endv, bound, type_, begin_, end_, end_var_, position_,
                   name_, buffers_, heap, useByPosBuffers_, useByNameBuffers_,
                   crashed, nSteps, pureVars>>

(***************************************************************************)
(* clean_up                                                                *)
(***************************************************************************)
\* the non-NULL pointers the pool holds
Pooled(bufs) == {bufs[j] : j \in 1..Len(bufs)} \ {0}

\* delete [] buffers_[i] for every i; the pool itself is left as it is
DeleteAll(h, bufs) ==
    [id \in 1..Len(h) |->
        IF id \in Pooled(bufs) THEN [h[id] EXCEPT !.frees = @ + 1] ELSE h[id]]

\* deleting an array a second time is undefined: the run goes on with a
\* corrupted heap, or the allocator aborts the process (dfAbort)
clean_up(dfAbort) ==
    /\ ~crashed
    /\ \A id \in Pooled(buffers_) : heap[id].frees < 2
    /\ heap' = DeleteAll(heap, buffers_)
    /\ crashed' = (dfAbort /\ \E id \in Pooled(buffers_) : heap[id].frees >= 1)
    /\ Observe("clean_up", "ok", 0)
    /\ UNCHANGED <<v, vtype, endv, bound, type_, begin_, end_, end_var_, position_,
                   name_, buffers_, useByPosBuffers_, useByNameBuffers_,
                   nSteps, pureVars>>

(***************************************************************************)
(* The caller: it owns the vector and the end variable                     *)
(***************************************************************************)
CallerUnchanged ==
    /\ ~crashed
    /\ nSteps < MaxSteps
    /\ nSteps' = nSteps + 1
    /\ Observe("caller", "ok", 0)
    /\ UNCHANGED <<vtype, bound, type_, begin_, end_, end_var_, position_, name_,
                buffers_, heap, useByPosBuffers_, useByNameBuffers_, crashed,
                pureVars>>

\* a value-initialised element: T()
DefaultElem(t) ==
    CASE t \in IntTypes    -> 0
      [] t \in StringTypes -> <<>>
      [] OTHER             -> 0

\* v.resize(v.size() + 1)
VectorGrow ==
    /\ Len(v) < MaxLen
    /\ v' = Append(v, DefaultElem(vtype))
    /\ endv' = endv
    /\ CallerUnchanged

\* v.resize(v.size() - 1)
VectorShrink ==
    /\ Len(v) > 0
    /\ v' = SubSeq(v, 1, Len(v) - 1)
    /\ endv' = endv
    /\ CallerUnchanged

SetEnd(e) ==
    /\ e # endv
    /\ endv' = e
    /\ v' = v
    /\ CallerUnchanged

(***************************************************************************)
(* The binder's specification                                              *)
(***************************************************************************)
Positions == {1}
Names == {"v"}

DecIdle ==
    /\ dtext = <<>>
    /\ dkind = "none"
    /\ dret = 0
    /\ dout = 0
    /\ dscale = 0

FmtIdle ==
    /\ fx = 0
    /\ fscale = 0
    /\ ftext = <<>>
    /\ fdone = FALSE

IscIdle ==
    /\ ctype = "none"
    /\ cval = 0
    /\ var_sqltype = [tag |-> "none", bit0 |-> 0]
    /\ var_sqlscale = 0
    /\ var_sqldata = [kind |-> "none", val |-> 0]
    /\ x_scale = 0
    /\ tout = "none"
    /\ fout = "none"
    /\ fret = 0

ParseIdle ==
    /\ pval = [set |-> FALSE, bits |-> 0]
    /\ pout = "none"

BufIdle ==
    /\ btype = "none"
    /\ bvalue = [top |-> 0, fill |-> 0, low |-> 0]
    /\ btext = <<>>
    /\ bdone = FALSE

AuxIdle == ParseIdle /\ BufIdle

Init ==
    /\ vtype \in BindTypes
    /\ v \in VectorsUpTo(vtype, MaxLen)
    /\ endv \in 0..(MaxLen + 1)
    /\ bound = FALSE
    /\ type_ = "unset"
    /\ begin_ = 0
    /\ end_ = "NULL"
    /\ end_var_ \in 0..MaxLen
    /\ position_ = 0
    /\ name_ = ""
    /\ buffers_ = <<>>
    /\ heap = <<>>
    /\ useByPosBuffers_ = [p \in Positions |-> "unset"]
    /\ useByNameBuffers_ = [n \in Names \cup {""} |-> "unset"]
    /\ crashed = FALSE
    /\ op = "init"
    /\ outcome = "ok"
    /\ result = 0
    /\ reads = {}
    /\ indReads = {}
    /\ callInd = NoInd
    /\ poolBase = 0
    /\ heapBase = 0
    /\ nSteps = 0
    /\ DecIdle
    /\ FmtIdle
    /\ IscIdle
    /\ AuxIdle

Next ==
    \/ \E p \in Positions, b \in 0..MaxLen, e \in {"NULL", "caller"} :
          bind_by_pos_bulk(p, b, e)
    \/ \E n \in Names, b \in 0..MaxLen, e \in {"NULL", "caller"} :
          bind_by_name_bulk(n, b, e)
    \/ \E ind \in IndArgs, failAt \in 0..(MaxPool - Len(buffers_)) :
       \E failIn \in IF failAt < LoopCount THEN {"new", "push_back"} ELSE {"none"} :
       \E oobCrash \in IF LoopLeavesVector THEN BOOLEAN ELSE {FALSE} :
       \E g \in GarbageOf(vtype) :
       \E gi \in IF LoopLeavesVector THEN {"i_ok", "i_null"} ELSE {"i_ok"} :
          pre_use(ind, failAt, failIn, oobCrash, g, gi)
    \/ size
    \/ \E dfAbort \in BOOLEAN : clean_up(dfAbort)
    \/ VectorGrow
    \/ VectorShrink
    \/ \E e \in 0..(MaxLen + 1) : SetEnd(e)

Spec == Init /\ [][Next]_vars


(***************************************************************************)
(* Properties of the binder, checked under Spec.                           *)
(* After a pre_use step the state holds what the call did: poolBase and    *)
(* heapBase are the lengths of the pool and of the heap before the call,   *)
(* callInd its indicator argument, reads / indReads the indices of v and   *)
(* of ind it read.  pre_use changes neither v, *end nor the bind fields,   *)
(* so their values in that state are those the call saw.                   *)
(***************************************************************************)
\* the text a pool entry points at
TextAt(k) == heap[buffers_[k]].text

\* the text of element x, not cut to any buffer size
TextOf(t, x) == IF t \in IntTypes THEN Dec(x) ELSE x

\* the indices of [b, e) that the indicator argument marks null
NullIndices(ind, b, e) ==
    IF ind.null THEN {} ELSE {i \in b..(e - 1) : i < Len(ind.a) /\ ind.a[i + 1] = "i_null"}

PreUseDone == op = "pre_use" /\ outcome = "ok"

\* the range [begin_, vend) lies inside the vector
RangeInVector == begin_ <= ResolveEnd /\ ResolveEnd <= Len(v)

\* the call had a caller-supplied range [begin_, *end) inside the vector
SubRangeCall == end_ # "NULL" /\ begin_ < endv /\ endv <= Len(v)

\* C1: a successful pre_use over a range 0 <= begin < end <= n with every
\* element present appends exactly end - begin buffers; the k-th appended
\* buffer holds the text of v[begin + k]; only v[begin .. end-1] is read.
\* With v = [10, -20], begin = 1, end = 2 the one buffer appended is "-20".
C1_SubRangeBind ==
    (PreUseDone /\ type_ \in SupportedTypes /\ SubRangeCall
       /\ NullIndices(callInd, begin_, endv) = {})
    => /\ Len(buffers_) = poolBase + (endv - begin_)
       /\ Len(heap) = heapBase + (endv - begin_)
       /\ \A k \in 0..(endv - begin_ - 1) :
             /\ buffers_[poolBase + k + 1] # 0
             /\ TextAt(poolBase + k + 1) = TextOf(type_, v[begin_ + k + 1])
       /\ reads = begin_..(endv - 1)
       /\ (type_ = "x_int32" /\ v = <<10, -20>> /\ begin_ = 1 /\ endv = 2
             => TextAt(poolBase + 1) = <<"-", "2", "0">>)

\* C1 witness: a proper sub-range (begin > 0, end < n) was bound
C1_Witness ==
    /\ PreUseDone /\ type_ = "x_int32" /\ SubRangeCall
    /\ begin_ = 1 /\ endv = 2 /\ v = <<10, -20>>
    /\ Len(buffers_) = poolBase + 1
    /\ TextAt(poolBase + 1) = <<"-", "2", "0">>

\* C2: in every sequence of calls no buffer is released twice, and after a
\* clean_up no buffer the pool holds is left unreleased (stated for a binder
\* whose range lies inside the vector).
C2_ReleasedExactlyOnce ==
    RangeInVector
    => /\ \A id \in 1..Len(heap) : heap[id].frees <= 1
       /\ (op = "clean_up" => \A id \in Pooled(buffers_) : heap[id].frees >= 1)

\* C3: when pre_use raises an error, every buffer the failed call allocated
\* is tracked in the pool (so that the following clean_up, which deletes the
\* pool's entries and nothing else, releases it) and has not been released
\* (stated for a range inside the vector).
C3_FailedCallBuffersTracked ==
    (op = "pre_use" /\ outcome \in {"bad_alloc", "unsupported"} /\ RangeInVector)
    => \A id \in (heapBase + 1)..Len(heap) :
          id \in Pooled(buffers_) /\ heap[id].frees = 0

\* C4: when the vector's current length differs from the length captured at
\* bind time, size() returns the current length, whatever begin and end.
C4_SizeMismatch ==
    (op = "size" /\ outcome = "ok" /\ Len(v) # end_var_) => result = Len(v)

\* C4 witness: the vector grew after the bind and size() returned the new
\* length although a range was supplied
C4_Witness ==
    /\ op = "size" /\ outcome = "ok"
    /\ Len(v) > end_var_ /\ end_ # "NULL" /\ endv # 0
    /\ result = Len(v)

\* C5 (as claimed): with the length unchanged since the bind, size() returns
\* min(end - begin, natural length) for every begin and end.
C5_Original ==
    (op = "size" /\ outcome = "ok" /\ Len(v) = end_var_ /\ end_ # "NULL")
    => result = Min((endv - begin_) % SizeMod, Len(v))

\* C5 (amended): with the length unchanged since the bind, size() returns
\* end - begin (in size_t arithmetic) when an end is supplied and is not 0,
\* and the natural length otherwise; that is min(end - begin, natural length)
\* when begin <= end <= natural length.
C5_SizeUnchangedLength ==
    (op = "size" /\ outcome = "ok" /\ Len(v) = end_var_)
    => /\ (end_ # "NULL" /\ endv # 0) => result = (endv - begin_) % SizeMod
       /\ (end_ = "NULL" \/ endv = 0) => result = Len(v)
       /\ (end_ # "NULL" /\ endv # 0 /\ begin_ <= endv /\ endv <= Len(v))
             => result = Min(endv - begin_, Len(v))

\* C5 witness: an end beyond the vector's length: size() returns the extent,
\* which exceeds the natural length
C5_Witness ==
    /\ op = "size" /\ outcome = "ok" /\ Len(v) = end_var_
    /\ end_ # "NULL" /\ endv > Len(v) /\ begin_ = 0
    /\ result = endv

\* C6: for every index i of the range whose indicator ind[i] (absolute
\* index) is i_null, pre_use appends NULL at that element's position,
\* allocates nothing for it and does not read v[i]; the pool gets one entry
\* per index, so the other elements keep their positions.
C6_NullElements ==
    (op = "pre_use" /\ outcome # "crash" /\ type_ \in SupportedTypes /\ RangeInVector)
    => LET nulls == NullIndices(callInd, begin_, ResolveEnd)
       IN  /\ reads \cap nulls = {}
           /\ outcome = "ok" =>
                /\ Len(buffers_) = poolBase + (ResolveEnd - begin_)
                /\ Len(heap) = heapBase + (ResolveEnd - begin_) - Cardinality(nulls)
                /\ \A i \in begin_..(ResolveEnd - 1) :
                      IF i \in nulls
                      THEN buffers_[poolBase + (i - begin_) + 1] = 0
                      ELSE /\ buffers_[poolBase + (i - begin_) + 1] # 0
                           /\ TextAt(poolBase + (i - begin_) + 1) = TextOf(type_, v[i + 1])

\* C6 witness: a range that starts after index 0 with a null element
\* followed by a present one
C6_Witness ==
    /\ PreUseDone /\ type_ \in SupportedTypes /\ RangeInVector
    /\ begin_ = 1 /\ ResolveEnd = 2
    /\ ~callInd.null /\ callInd.a[1] = "i_ok" /\ callInd.a[2] = "i_null"
    /\ buffers_[poolBase + 1] = 0

\* the index at which a pre_use that raised an error stopped
StopIndex == (begin_ + (Len(buffers_) - poolBase)) % SizeMod

\* C7 (as claimed): with an unsupported element type, bind_by_pos_bulk,
\* bind_by_name_bulk and pre_use raise the unsupported-type error before any
\* buffer is allocated, for every range and every indicator sequence.
C7_Original ==
    (bound /\ type_ \notin SupportedTypes /\ op \in {"bind", "pre_use"}
       /\ outcome \notin {"crash", "bad_alloc"})
    => outcome = "unsupported" /\ Len(heap) = heapBase

\* C7 (amended): with an unsupported element type no buffer is ever
\* allocated; both binds raise the unsupported-type error; pre_use raises it
\* at the first index of its range that is not marked null, after appending
\* only NULL markers, and completes without that error when the range is
\* empty or every index of it is marked null.
C7_UnsupportedType ==
    (bound /\ type_ \notin SupportedTypes)
    => /\ Len(heap) = 0
       /\ \A k \in 1..Len(buffers_) : buffers_[k] = 0
       /\ op = "bind" => outcome = "unsupported"
       /\ (op = "pre_use" /\ outcome = "unsupported")
             => StopIndex \notin NullIndices(callInd, 0, SizeMod)
       /\ (op = "pre_use" /\ RangeInVector /\ outcome \in {"ok", "unsupported"})
             => (outcome = "ok" <=>
                   \A i \in begin_..(ResolveEnd - 1) :
                       i \in NullIndices(callInd, begin_, ResolveEnd))

\* C7 witness: pre_use on an unsupported type raised the error at the second
\* index of its range, the first being marked null
C7_Witness ==
    /\ bound /\ type_ \notin SupportedTypes
    /\ op = "pre_use" /\ outcome = "unsupported"
    /\ Len(buffers_) = poolBase + 1 /\ Len(heap) = 0

\* C8: pre_use reads no vector element and no indicator at an index past the
\* vector's current length; a range that leaves the vector makes pre_use
\* fail with an error instead.
C8_NoOutOfRangeRead ==
    op = "pre_use"
    => /\ \A i \in reads \cup indReads : i < Len(v)
       /\ ~RangeInVector => outcome \in {"bad_alloc", "unsupported"}


\* what one step of the binder does to the upper bound: a bind that
\* succeeds captures the vector's length, no later step changes the captured
\* length, and a pre_use that completes appends one pool entry per index of
\* [begin_, E), reading no element outside it
UpperBoundStep ==
    LET E == IF end_ # "NULL" /\ endv # 0 THEN endv ELSE end_var_
    IN  /\ (~bound /\ bound' /\ vtype \in SupportedTypes) => end_var_' = Len(v)
        /\ bound => end_var_' = end_var_
        /\ (bound /\ type_ \in SupportedTypes /\ op' = "pre_use" /\ outcome' = "ok")
              => /\ begin_ <= E
                 /\ Len(buffers_') = Len(buffers_) + (E - begin_)
                 /\ reads' \subseteq begin_..(E - 1)
                 /\ \A i \in begin_..(E - 1) : i \notin reads' => ~callInd'.null

\* C19: pre_use encodes exactly the indices [begin, E), E being the caller's
\* *end read at pre_use time when the end pointer is non-null and *end # 0,
\* and the vector length captured at bind time otherwise: a vector that grew
\* after the bind is bound up to the captured length, and an end of 0 binds
\* through the captured length.
C19_UpperBound == [][UpperBoundStep]_vars

\* C19 witness: the vector grew after the bind, the caller's end is 0, and
\* pre_use appended entries up to the captured length only
C19_Witness ==
    /\ PreUseDone /\ type_ \in SupportedTypes
    /\ end_ # "NULL" /\ endv = 0
    /\ end_var_ > 0 /\ Len(v) > end_var_
    /\ Len(buffers_) = poolBase + (end_var_ - begin_)

\* C20: when the vector's length is unchanged since the bind, size() equals
\* the number of pool entries pre_use appends for the same begin and end,
\* whatever the form of end (non-null and non-zero, zero, or null).
C20_SizeAgreesWithPreUse ==
    (PreUseDone /\ type_ \in SupportedTypes /\ RangeInVector /\ Len(v) = end_var_)
    => SizeValue = Len(buffers_) - poolBase
\* C21: after every successful pre_use, a second or later one included, with
\* or without a clean_up in between, the array registered with the statement
\* (the pool from its first entry on) has as its k-th entry the encoding of
\* the current v[begin + k], or the NULL marker, for every k in
\* [0, E - begin), and every non-NULL entry of it is a buffer that has not
\* been released.
C21_ReExecution ==
    (PreUseDone /\ type_ \in SupportedTypes /\ RangeInVector /\ begin_ < ResolveEnd)
    => /\ IF position_ > 0 THEN useByPosBuffers_[position_] = "buffers_0"
          ELSE useByNameBuffers_[name_] = "buffers_0"
       /\ \A k \in 0..(ResolveEnd - begin_ - 1) :
             IF begin_ + k \in NullIndices(callInd, begin_, ResolveEnd)
             THEN buffers_[k + 1] = 0
             ELSE /\ buffers_[k + 1] # 0
                  /\ heap[buffers_[k + 1]].frees = 0
                  /\ TextAt(k + 1) = TextOf(type_, v[begin_ + k + 1])


(***************************************************************************)
(* str2dec<IntType> (firebird/common.h).                                   *)
(* IntType is modelled as a DecBits-bit integer, signed or unsigned, with  *)
(* arithmetic modulo 2^DecBits.  A text is a sequence of characters; the   *)
(* pointer str2dec returns is the 1-based position of the character it     *)
(* points at, Len(s) + 1 being the terminating '\0'.                       *)
(***************************************************************************)
\* width of the accumulator type
DecBits == 8
\* longest text parsed
MaxText == 4

DecMod == 2 ^ DecBits

\* the characters texts are made of ("x" stands for any other character)
TextChars == {"0", "1", "2", "6", "9", ".", "+", "-", "x"}

RECURSIVE TextsUpTo(_)
\* all texts of length 0..n
TextsUpTo(n) ==
    IF n = 0 THEN {<<>>}
    ELSE LET shorter == TextsUpTo(n - 1)
         IN  shorter \cup {Append(q, ch) : q \in {r \in shorter : Len(r) = n - 1},
                                           ch \in TextChars}

\* *s - '0' for a digit; any other character gives a value outside 0..9
DigitOf(ch) ==
    CASE ch = "0" -> 0 [] ch = "1" -> 1 [] ch = "2" -> 2 [] ch = "3" -> 3
      [] ch = "4" -> 4 [] ch = "5" -> 5 [] ch = "6" -> 6 [] ch = "7" -> 7
      [] ch = "8" -> 8 [] ch = "9" -> 9 [] OTHER -> -1

\* conversion of an integer to IntType
Wrap(kind, x) ==
    IF kind = "unsigned" THEN x % DecMod
    ELSE ((x + DecMod \div 2) % DecMod) - DecMod \div 2

\* (mutant) a second '.' is skipped like the first
RepeatedPointIgnored(period) == FALSE

\* if (period) return s;
RepeatedPoint(period) == period

\* (mutant) the two comparisons made with <= and >=
WrappedNonStrict(sign, res, out) == IF sign = 1 THEN res <= out ELSE res >= out

\* (mutant) the two comparisons exchanged
WrappedInverted(sign, res, out) == IF sign = 1 THEN res > out ELSE res < out

\* if (1 == sign) { if (res < out) return s; } else { if (res > out) return s; }
Wrapped(sign, res, out) == IF sign = 1 THEN res < out ELSE res > out

RECURSIVE Str2DecLoop(_, _, _)
\* for (out = 0; *s; ++s, out = res) from the state st
Str2DecLoop(s, kind, st) ==
    IF st.pos > Len(s) THEN st
    ELSE
    LET ch  == s[st.pos]
        d   == DigitOf(ch)
        res == Wrap(kind, st.res * 10 + Wrap(kind, d * st.sign))
    IN
    IF ch = "."
    THEN IF RepeatedPoint(st.period) THEN st
         ELSE Str2DecLoop(s, kind, [st EXCEPT !.period = TRUE, !.pos = @ + 1, !.out = st.res])
    ELSE IF d < 0 \/ d > 9 THEN st
    ELSE IF Wrapped(st.sign, res, st.out) THEN [st EXCEPT !.res = res]
    ELSE Str2DecLoop(s, kind,
            [st EXCEPT !.res = res, !.out = res, !.pos = @ + 1,
                       !.scale = IF st.period THEN @ + 1 ELSE @])

\* str2dec(s, out, scale): the position returned, out and scale
Str2Dec(s, kind) ==
    LET signed == Len(s) > 0 /\ s[1] \in {"+", "-"}
        sign   == IF Len(s) > 0 /\ s[1] = "-" THEN -1 ELSE 1
    IN  Str2DecLoop(s, kind,
            [pos |-> IF signed THEN 2 ELSE 1, sign |-> sign, scale |-> 0,
             period |-> FALSE, res |-> 0, out |-> 0])

\* one call of str2dec on the text and accumulator type chosen initially
str2dec ==
    LET r == Str2Dec(dtext, dkind)
    IN  /\ dret = 0
        /\ dret' = r.pos
        /\ dout' = r.out
        /\ dscale' = r.scale
        /\ UNCHANGED <<dtext, dkind, binderVars, fmtVars, iscVars, auxVars>>

(***************************************************************************)
(* format_decimal<IntType> (firebird/common.h).                            *)
(***************************************************************************)
\* largest |sqlscale| formatted
MaxScale == 3

\* std::string(n, ch)
Repeat(n, ch) == [j \in 1..n |-> ch]

\* (mutant) the padding test with < in place of <=
NeedsPaddingStrict(len, neg, sqlscale) == len - neg < -sqlscale

\* ssize(r) - (x < 0) <= -sqlscale
NeedsPadding(len, neg, sqlscale) == len - neg <= -sqlscale

\* the text format_decimal returns for the integer x and the scale sqlscale
FormatDecimal(x, sqlscale) ==
    LET r   == Dec(x)
        neg == IF x < 0 THEN 1 ELSE 0
        pad == IF NeedsPadding(Len(r), neg, sqlscale)
               THEN Repeat(neg, "-") \o Repeat(-sqlscale - (Len(r) - neg) + 1, "0")
                       \o SubSeq(r, neg + 1, Len(r))
               ELSE r
    IN  IF sqlscale < 0
        THEN SubSeq(pad, 1, Len(pad) + sqlscale) \o <<".">>
                \o SubSeq(pad, Len(pad) + sqlscale + 1, Len(pad))
        ELSE r \o Repeat(sqlscale, "0")

\* one call of format_decimal on the integer and scale chosen initially
format_decimal ==
    /\ dkind = "none"
    /\ ~fdone
    /\ fdone' = TRUE
    /\ ftext' = FormatDecimal(fx, fscale)
    /\ UNCHANGED <<fx, fscale, binderVars, decVars, iscVars, auxVars>>

\* format_decimal called on the integer str2dec has just delivered
format_parsed(sqlscale) ==
    /\ dret = Len(dtext) + 1
    /\ ~fdone
    /\ fdone' = TRUE
    /\ fx' = dout
    /\ fscale' = sqlscale
    /\ ftext' = FormatDecimal(dout, sqlscale)
    /\ UNCHANGED <<binderVars, decVars, iscVars, auxVars>>

\* str2dec<IntType>, IntType signed, called on the text format_decimal has
\* just returned
parse_formatted ==
    LET r == Str2Dec(ftext, "signed")
    IN  /\ fdone
        /\ dkind = "none"
        /\ dtext' = ftext
        /\ dkind' = "signed"
        /\ dret' = r.pos
        /\ dout' = r.out
        /\ dscale' = r.scale
        /\ UNCHANGED <<binderVars, fmtVars, iscVars, auxVars>>

BinderIdle ==
    /\ vtype = "x_int32"
    /\ v = <<>>
    /\ endv = 0
    /\ bound = FALSE
    /\ type_ = "unset"
    /\ begin_ = 0
    /\ end_ = "NULL"
    /\ end_var_ = 0
    /\ position_ = 0
    /\ name_ = ""
    /\ buffers_ = <<>>
    /\ heap = <<>>
    /\ useByPosBuffers_ = [p \in Positions |-> "unset"]
    /\ useByNameBuffers_ = [n \in Names \cup {""} |-> "unset"]
    /\ crashed = FALSE
    /\ op = "init"
    /\ outcome = "ok"
    /\ result = 0
    /\ reads = {}
    /\ indReads = {}
    /\ callInd = NoInd
    /\ poolBase = 0
    /\ heapBase = 0
    /\ nSteps = 0

InitDec ==
    /\ BinderIdle
    /\ dtext \in TextsUpTo(MaxText)
    /\ dkind \in {"signed", "unsigned"}
    /\ dret = 0
    /\ dout = 0
    /\ dscale = 0
    /\ FmtIdle
    /\ IscIdle
    /\ AuxIdle

NextDec ==
    \/ str2dec
    \/ \E sqlscale \in (-MaxText)..MaxText : format_parsed(sqlscale)

SpecDec == InitDec /\ [][NextDec]_vars

\* the values of a signed IntType
SignedRange == (-(DecMod \div 2))..(DecMod \div 2 - 1)

InitFmt ==
    /\ BinderIdle
    /\ DecIdle
    /\ fx \in SignedRange
    /\ fscale \in (-MaxScale)..MaxScale
    /\ ftext = <<>>
    /\ fdone = FALSE
    /\ IscIdle
    /\ AuxIdle

NextFmt ==
    \/ format_decimal
    \/ parse_formatted

SpecFmt == InitFmt /\ [][NextFmt]_vars

(***************************************************************************)
(* to_isc<T1> / from_isc<T1> (firebird/common.h).                          *)
(* int16_t, int32_t and int64_t / long long are modelled as integers of    *)
(* ShortBits, LongBits and Int64Bits bits.  double and float are binary    *)
(* floating-point formats of MantBits and MantBits - 1 significant bits    *)
(* with round-to-nearest-even and smallest spacing 2^-FracBits; a floating *)
(* value is held as the integer number of 2^-FracBits units it equals.     *)
(* An integer T1 is as wide as long long.                                  *)
(***************************************************************************)
\* width of int16_t
ShortBits == 4
\* width of int32_t
LongBits == 5
\* width of int64_t and long long, the IntType str2dec accumulates in when
\* parse_decimal calls it
Int64Bits == DecBits
\* significant bits of a double
MantBits == 4
\* the smallest spacing of floating values is 2^-FracBits
FracBits == 6
\* largest |sqlscale| of a slot
MaxSlotScale == 2

Unit == 2 ^ FracBits

FloatMantBits == MantBits - 1

Abs(x) == IF x < 0 THEN -x ELSE x

\* integer division of C++: the quotient truncated toward zero (b > 0)
TruncDiv(a, b) == IF a >= 0 THEN a \div b ELSE -((-a) \div b)

\* the values of a signed integer type of the given width
IntRange(bits) == (-(2 ^ (bits - 1)))..(2 ^ (bits - 1) - 1)

\* conversion of an integer to a signed integer type of the given width
Narrow(bits, x) == ((x + 2 ^ (bits - 1)) % (2 ^ bits)) - 2 ^ (bits - 1)

RECURSIVE ShiftFor(_, _, _)
\* the exponent (in units) at which t has at most p significant bits
ShiftFor(p, t, k) == IF t < 2 ^ p THEN k ELSE ShiftFor(p, t \div 2, k + 1)

\* a / b rounded to the nearest integer, ties to the even one (a >= 0, b > 0)
RoundHalfEven(a, b) ==
    LET fl == a \div b
        rm == a % b
    IN  IF 2 * rm > b \/ (2 * rm = b /\ fl % 2 = 1) THEN fl + 1 ELSE fl

\* the floating value of p significant bits nearest to num / den (den > 0),
\* in units
RoundTo(p, num, den) ==
    LET a == Abs(num) * Unit
        k == ShiftFor(p, a \div den, 0)
        m == RoundHalfEven(a, den * 2 ^ k) * 2 ^ k
    IN  IF num < 0 THEN -m ELSE m

\* the doubles T1 = double ranges over (magnitude below 2^MantBits)
Doubles ==
    {q \in (-(2 ^ (MantBits + FracBits)))..(2 ^ (MantBits + FracBits)) :
        RoundTo(MantBits, q, Unit) = q}

\* the type tags a slot can carry, without the nullable bit
TypeTags == {"SQL_SHORT", "SQL_LONG", "SQL_INT64", "SQL_FLOAT", "SQL_DOUBLE", "SQL_TEXT"}

IntegerTags == {"SQL_SHORT", "SQL_LONG", "SQL_INT64"}

\* the width of the integer an integer tag stores
TagBits(tag) ==
    CASE tag = "SQL_SHORT" -> ShortBits
      [] tag = "SQL_LONG"  -> LongBits
      [] OTHER             -> Int64Bits

\* var->sqltype & ~1
TypeMasked(t) == t.tag

\* (mutant) a switch without its default: branch
NoDefaultCase(type) == FALSE

\* the default: branch of the switch over the masked type tag
IsDefaultCase(type) ==
    type \notin {"SQL_SHORT", "SQL_LONG", "SQL_INT64", "SQL_FLOAT", "SQL_DOUBLE"}

RECURSIVE TenTo(_)
\* the loops  for (i = 0; i > scale; --i) x *= 10  and  (i < scale; ++i)
TenTo(n) == IF n <= 0 THEN 1 ELSE 10 * TenTo(n - 1)

\* (mutant) the check made for every T1
ToCheckThrowsAnyType(isInteger, scale, type) == scale >= 0 /\ type \in IntegerTags

\* cond_to_isc<is_integer>::checkInteger(scale, type) throws
ToCheckThrows(isInteger, scale, type) ==
    ~isInteger /\ scale >= 0 /\ type \in IntegerTags

\* round_for_isc(double): value < 0 ? value - 0.5 : value + 0.5
round_for_isc(q) ==
    IF q < 0 THEN RoundTo(MantBits, q - Unit \div 2, Unit)
    ELSE RoundTo(MantBits, q + Unit \div 2, Unit)

\* value * multiplier for an integer T1, in long long
IntProduct(value, scale) == value * TenTo(-scale)

\* round_for_isc(value * multiplier) / divisor for T1 = double, as a double
DoubleQuotient(value, scale) ==
    LET prod == RoundTo(MantBits, value * TenTo(-scale), Unit)
    IN  RoundTo(MantBits, round_for_isc(prod), Unit * TenTo(scale))

\* to_isc runs into undefined behaviour: the long long product overflows,
\* or the double to convert lies outside the destination integer type
ToIscUndefinedFor(T1, value, xs) ==
    LET scale == var_sqlscale + xs
        type  == TypeMasked(var_sqltype)
    IN  /\ type \in IntegerTags
        /\ ~ToCheckThrows(T1 = "int", scale, type)
        /\ IF T1 = "int"
           THEN IntProduct(value, scale) \notin IntRange(Int64Bits)
           ELSE TruncDiv(DoubleQuotient(value, scale), Unit) \notin IntRange(TagBits(type))

\* the same, of the call on the value and the scale chosen initially
ToIscUndefined == ToIscUndefinedFor(ctype, cval, x_scale)

\* to_isc<T1>(val, var, x_scale): how the call ends and what the slot's data
\* buffer holds afterwards.  ub chooses what undefined behaviour does: the
\* value wraps ("wrap"), or the overflowing product traps and the
\* out-of-range conversion yields the smallest integer ("other")
ToIscOf(T1, value, xs, ub) ==
    LET scale == var_sqlscale + xs
        type  == TypeMasked(var_sqltype)
        bits  == TagBits(type)
        prod  == IntProduct(value, scale)
        quot  == TruncDiv(Narrow(Int64Bits, prod), TenTo(scale))
        t     == TruncDiv(DoubleQuotient(value, scale), Unit)
        keep  == var_sqldata
    IN
    IF ToCheckThrows(T1 = "int", scale, type)
    THEN [out |-> "fractional", data |-> keep]
    ELSE IF IsDefaultCase(type)
    THEN [out |-> "unsupported", data |-> keep]
    ELSE IF type \in IntegerTags
    THEN IF T1 = "int"
         THEN IF prod \notin IntRange(Int64Bits) /\ ub = "other"
              THEN [out |-> "trap", data |-> keep]
              ELSE [out |-> "ok", data |-> [kind |-> type, val |-> Narrow(bits, quot)]]
         ELSE IF t \notin IntRange(bits) /\ ub = "other"
              THEN [out |-> "ok", data |-> [kind |-> type, val |-> -(2 ^ (bits - 1))]]
              ELSE [out |-> "ok", data |-> [kind |-> type, val |-> Narrow(bits, t)]]
    ELSE LET mant == IF type = "SQL_FLOAT" THEN FloatMantBits ELSE MantBits
         IN  [out |-> "ok",
              data |-> [kind |-> type,
                        val  |-> IF T1 = "int" THEN RoundTo(mant, value, 1)
                                 ELSE RoundTo(mant, value, Unit)]]

\* the same, of the call on the value and the scale chosen initially
ToIsc(ub) == ToIscOf(ctype, cval, x_scale, ub)

to_isc(ub) ==
    LET r == ToIsc(ub)
    IN  /\ ctype # "none"
        /\ tout = "none"
        /\ fout = "none"
        /\ tout' = r.out
        /\ var_sqldata' = r.data
        /\ UNCHANGED <<ctype, cval, var_sqltype, var_sqlscale, x_scale, fout, fret,
                       binderVars, decVars, fmtVars, auxVars>>

\* (mutant) the check made for scale <= 0
FromCheckThrowsAtZero(isInteger, scale) == isInteger /\ scale <= 0

\* if (scale < 0) cond_from_isc<is_integer>::checkInteger(scale) throws
FromCheckThrows(isInteger, scale) == isInteger /\ scale < 0

\* (mutant) tens raised for scales of either sign
TensEitherSign(scale) == TenTo(Abs(scale))

\* T1 tens = 1; if (scale < 0) for (int i = 0; i > scale; --i) tens *= 10;
Tens(scale) == IF scale < 0 THEN TenTo(-scale) ELSE TenTo(0)

\* from_isc<T1>(var): how the call ends and the value it returns
FromIsc ==
    LET scale  == var_sqlscale
        tens   == Tens(scale)
        type   == TypeMasked(var_sqltype)
        stored == var_sqldata.val
    IN
    IF FromCheckThrows(ctype = "int", scale)
    THEN [out |-> "fractional", ret |-> 0]
    ELSE IF IsDefaultCase(type)
    THEN [out |-> "unsupported", ret |-> 0]
    ELSE IF type \in IntegerTags
    THEN [out |-> "ok",
          ret |-> IF ctype = "int" THEN TruncDiv(stored, tens)
                  ELSE RoundTo(MantBits, RoundTo(MantBits, stored, 1), Unit * tens)]
    ELSE [out |-> "ok",
          ret |-> IF ctype = "int" THEN TruncDiv(stored, Unit) ELSE stored]

from_isc ==
    LET r == FromIsc
    IN  /\ ctype # "none"
        /\ tout # "trap"
        /\ fout = "none"
        /\ fout' = r.out
        /\ fret' = r.ret
        /\ UNCHANGED <<ctype, cval, var_sqltype, var_sqlscale, var_sqldata, x_scale,
                       tout, binderVars, decVars, fmtVars, auxVars>>

\* what the slot's data buffer holds before any call
InitialData(tag) ==
    IF tag \in IntegerTags THEN {[kind |-> tag, val |-> x] : x \in {-3, 5}}
    ELSE IF tag \in {"SQL_FLOAT", "SQL_DOUBLE"}
    THEN {[kind |-> tag, val |-> x * Unit] : x \in {-3, 5}}
    ELSE {[kind |-> tag, val |-> 0]}

InitIsc ==
    /\ BinderIdle
    /\ DecIdle
    /\ FmtIdle
    /\ ctype \in {"int", "double"}
    /\ cval \in IF ctype = "int" THEN IntRange(Int64Bits) ELSE Doubles
    /\ var_sqltype \in [tag : TypeTags, bit0 : {0, 1}]
    /\ var_sqlscale \in (-MaxSlotScale)..MaxSlotScale
    /\ var_sqldata \in InitialData(var_sqltype.tag)
    /\ x_scale \in {0, 1}
    /\ tout = "none"
    /\ fout = "none"
    /\ fret = 0
    /\ AuxIdle

NextIsc ==
    \/ \E ub \in IF ToIscUndefined THEN {"wrap", "other"} ELSE {"wrap"} : to_isc(ub)
    \/ from_isc

SpecIsc == InitIsc /\ [][NextIsc]_vars

(***************************************************************************)
(* parse_decimal<IntType, UIntType> (firebird/common.h).                   *)
(* The object *val is as wide as IntType; it is held as the number its     *)
(* bits spell when read as unsigned.  std::memcpy copies the bits of t1 or *)
(* t2 into it, and to_isc<IntType> reads them back as an IntType.          *)
(***************************************************************************)
\* (mutant) the test without its negation
AttemptInverted(r, s) == r.pos # Len(s) + 1

\* !*str2dec(s, t, scale): the pointer returned is at the terminator
AttemptSucceeded(r, s) == r.pos = Len(s) + 1

\* the str2dec calls parse_decimal makes on s, the last one made, and the
\* bits memcpy writes to *val (none when both attempts fail)
ParseAttempts(s) ==
    LET r1 == Str2Dec(s, "unsigned")
        r2 == Str2Dec(s, "signed")
    IN  IF AttemptSucceeded(r1, s)
        THEN [parsed |-> TRUE, kind |-> "unsigned", last |-> r1,
              bits |-> r1.out % DecMod]
        ELSE IF AttemptSucceeded(r2, s)
        THEN [parsed |-> TRUE, kind |-> "signed", last |-> r2,
              bits |-> r2.out % DecMod]
        ELSE [parsed |-> FALSE, kind |-> "signed", last |-> r2, bits |-> 0]

\* *reinterpret_cast<IntType*>(val): the bits of *val read as an IntType
ReadAsIntType(bits) == Wrap("signed", bits)

\* the to_isc<IntType> call parse_decimal ends with runs into undefined
\* behaviour
ParseUndefined ==
    LET a == ParseAttempts(dtext)
    IN  /\ a.parsed
        /\ ToIscUndefinedFor("int", ReadAsIntType(a.bits), a.last.scale)

\* parse_decimal<IntType, UIntType>(val, var, s) on the text chosen initially
parse_decimal(ub) ==
    LET a == ParseAttempts(dtext)
        x == ReadAsIntType(a.bits)
        r == ToIscOf("int", x, a.last.scale, ub)
    IN  /\ pout = "none"
        /\ dkind' = a.kind
        /\ dret' = a.last.pos
        /\ dout' = a.last.out
        /\ dscale' = a.last.scale
        /\ IF a.parsed
           THEN /\ pval' = [set |-> TRUE, bits |-> a.bits]
                /\ ctype' = "int"
                /\ cval' = x
                /\ x_scale' = a.last.scale
                /\ tout' = r.out
                /\ var_sqldata' = r.data
                /\ pout' = r.out
           ELSE /\ pout' = "parse_error"
                /\ UNCHANGED <<pval, ctype, cval, x_scale, tout, var_sqldata>>
        /\ UNCHANGED <<dtext, var_sqltype, var_sqlscale, fout, fret,
                       binderVars, fmtVars, bufVars>>

\* the slot types parse_decimal is checked on
ParseTags == {"SQL_SHORT", "SQL_INT64", "SQL_DOUBLE", "SQL_TEXT"}

InitParse ==
    /\ BinderIdle
    /\ FmtIdle
    /\ BufIdle
    /\ dtext \in TextsUpTo(MaxText)
    /\ dkind = "none"
    /\ dret = 0
    /\ dout = 0
    /\ dscale = 0
    /\ ctype = "none"
    /\ cval = 0
    /\ var_sqltype \in [tag : ParseTags, bit0 : {0}]
    /\ var_sqlscale \in {-1, 0}
    /\ var_sqldata \in InitialData(var_sqltype.tag)
    /\ x_scale = 0
    /\ tout = "none"
    /\ fout = "none"
    /\ fret = 0
    /\ ParseIdle

NextParse ==
    \E ub \in IF ParseUndefined THEN {"wrap", "other"} ELSE {"wrap"} : parse_decimal(ub)

SpecParse == InitParse /\ [][NextParse]_vars

(***************************************************************************)
(* The integer cases of pre_use on elements of the full width of their     *)
(* type (postgresql/vector-use-type.cpp).  An element is held as its bits, *)
(* most significant first: the top bit, a run of equal bits, and LowBits   *)
(* low bits.  printf's conversion to decimal is computed on sequences of   *)
(* decimal digits, most significant first, the empty sequence being zero.  *)
(***************************************************************************)
\* how many low bits of an element vary freely
LowBits == 4

\* the width of int8_t, ..., uint64_t
Width(t) ==
    CASE t \in {"x_int8", "x_uint8"}   -> 8
      [] t \in {"x_int16", "x_uint16"} -> 16
      [] t \in {"x_int32", "x_uint32"} -> 32
      [] t \in {"x_int64", "x_uint64"} -> 64

\* std::numeric_limits<T>::is_signed
IsSignedType(t) == t \in {"x_int8", "x_int16", "x_int32", "x_int64"}

\* the bits of the element b of type t
BitsOf(t, b) ==
    [j \in 1..Width(t) |->
        IF j = 1 THEN b.top
        ELSE IF j <= Width(t) - LowBits THEN b.fill
        ELSE (b.low \div (2 ^ (Width(t) - j))) % 2]

\* the decimal digits of 2 * n + c (c is 0 or 1), from those of n: the carry
\* out of a digit d is 1 exactly when d >= 5
TimesTwoPlus(ds, c) ==
    LET n    == Len(ds)
        body == [j \in 1..n |->
                    (2 * ds[j] + (IF j = n THEN c ELSE IF ds[j + 1] >= 5 THEN 1 ELSE 0)) % 10]
    IN  IF n = 0 THEN IF c = 0 THEN <<>> ELSE <<c>>
        ELSE IF ds[1] >= 5 THEN <<1>> \o body
        ELSE <<>> \o body

RECURSIVE NatDigitsFrom(_, _, _)
\* the decimal digits of the natural number spelt by the digits acc followed
\* by the bits of bs from position j on
\* (the test on Len(next) makes TLC compute the digits at every step)
NatDigitsFrom(bs, j, acc) ==
    IF j > Len(bs) THEN acc
    ELSE LET next == TimesTwoPlus(acc, bs[j])
         IN  IF Len(next) >= 0 THEN NatDigitsFrom(bs, j + 1, next) ELSE next

\* the decimal digits of the natural number the bits bs spell
NatDigits(bs) == NatDigitsFrom(bs, 1, <<>>)

\* the bits of n + 1 modulo 2^Len(bs), from those of n: a bit flips exactly
\* when all the bits below it are 1
IncBits(bs) ==
    [j \in 1..Len(bs) |->
        IF \A k \in (j + 1)..Len(bs) : bs[k] = 1 THEN 1 - bs[j] ELSE bs[j]]

\* the magnitude of the negative number the bits bs spell in two's complement
MagnitudeBits(bs) == IncBits([j \in 1..Len(bs) |-> 1 - bs[j]])

\* the characters of a sequence of decimal digits
DigitsText(ds) ==
    IF ds = <<>> THEN <<"0">> ELSE [j \in 1..Len(ds) |-> DigitChars[ds[j] + 1]]

\* printf's "%d" / "%u" / "%lld" / "%llu" of the element b of type t
PrintfDecimal(t, b) ==
    LET bs == BitsOf(t, b)
    IN  IF IsSignedType(t) /\ bs[1] = 1
        THEN <<"-">> \o DigitsText(NatDigits(MagnitudeBits(bs)))
        ELSE DigitsText(NatDigits(bs))

\* one integer case of pre_use: new char[bufSize]; snprintf(buf, bufSize, ...)
render_integer ==
    /\ ~bdone
    /\ bdone' = TRUE
    /\ btext' = Snprintf(BufSize(btype), PrintfDecimal(btype, bvalue))
    /\ UNCHANGED <<btype, bvalue, binderVars, decVars, fmtVars, iscVars, parseVars>>

InitBuf ==
    /\ BinderIdle
    /\ DecIdle
    /\ FmtIdle
    /\ IscIdle
    /\ ParseIdle
    /\ btype \in IntTypes
    /\ bvalue \in [top : {0, 1}, fill : {0, 1}, low : 0..(2 ^ LowBits - 1)]
    /\ btext = <<>>
    /\ bdone = FALSE

NextBuf == render_integer

SpecBuf == InitBuf /\ [][NextBuf]_vars

(***************************************************************************)
(* Properties of str2dec, checked under SpecDec.                           *)
(***************************************************************************)
\* str2dec has returned
DecDone == dret # 0

\* the caller's test: the character returned is the terminator
DecSuccess == dret = Len(dtext) + 1

\* the text without its optional leading sign
Unsigned(s) == IF Len(s) > 0 /\ s[1] \in {"+", "-"} THEN SubSeq(s, 2, Len(s)) ELSE s

\* the positions of dtext that hold a '.'
Points(s) == {j \in 1..Len(s) : s[j] = "."}

\* a digit text: optional sign, then digits with at most one point
IsDigitText(s) ==
    /\ \A j \in 1..Len(Unsigned(s)) : Unsigned(s)[j] = "." \/ DigitOf(Unsigned(s)[j]) >= 0
    /\ Cardinality(Points(s)) <= 1

RECURSIVE Magnitude(_)
\* the natural number the digits of a text spell, the point left out
Magnitude(s) ==
    IF Len(s) = 0 THEN 0
    ELSE LET front == Magnitude(SubSeq(s, 1, Len(s) - 1))
             d     == DigitOf(s[Len(s)])
         IN  IF d >= 0 THEN front * 10 + d ELSE front

\* the integer a digit text spells
SignedValue(s) ==
    IF Len(s) > 0 /\ s[1] = "-" THEN -Magnitude(Unsigned(s)) ELSE Magnitude(Unsigned(s))

\* the values of the accumulator type
InRange(kind, x) ==
    IF kind = "unsigned" THEN 0 <= x /\ x < DecMod
    ELSE -(DecMod \div 2) <= x /\ x < DecMod \div 2

\* C9: for every digit text whose integer value lies outside the range of
\* the accumulator type, str2dec reports failure: it never reports success
\* with a wrapped-around value.
C9_OverflowDetected ==
    (DecDone /\ IsDigitText(dtext) /\ ~InRange(dkind, SignedValue(dtext)))
    => ~DecSuccess

\* the first position of the text that holds a second point, or a character
\* that is neither a digit nor a point after the optional leading sign;
\* 0 when there is none
FirstOffending(s) ==
    LET first == IF Len(s) > 0 /\ s[1] \in {"+", "-"} THEN 2 ELSE 1
        bad   == {j \in first..Len(s) :
                     \/ (s[j] # "." /\ DigitOf(s[j]) < 0)
                     \/ (s[j] = "." /\ \E i \in first..(j - 1) : s[i] = ".")}
    IN  IF bad = {} THEN 0 ELSE CHOOSE j \in bad : \A i \in bad : j <= i

\* C10 (as claimed): on a malformed text str2dec returns a pointer to the
\* first offending character.
C10_Original ==
    (DecDone /\ FirstOffending(dtext) # 0) => dret = FirstOffending(dtext)

\* C10 (amended): on a malformed text str2dec reports failure: it returns a
\* pointer to the first offending character, or to an earlier digit, and to
\* an earlier digit only when the digits up to it already spell a value
\* outside the range of the accumulator type (the overflow check stopped
\* there).
C10_MalformedText ==
    (DecDone /\ FirstOffending(dtext) # 0)
    => /\ ~DecSuccess
       /\ dret <= FirstOffending(dtext)
       /\ dret < FirstOffending(dtext)
             => /\ DigitOf(dtext[dret]) >= 0
                /\ ~InRange(dkind, SignedValue(SubSeq(dtext, 1, dret)))

\* C10 witness: a sign that is not in first position stopped the parse
C10_Witness ==
    /\ DecDone
    /\ dtext = <<"1", "-", "2">>
    /\ dret = 2

(***************************************************************************)
(* Properties of format_decimal, checked under SpecFmt, and of str2dec     *)
(* followed by format_decimal, checked under SpecDec.                      *)
(* A text denotes SignedValue(text) / 10^FracDigits(text).                 *)
(***************************************************************************)
RECURSIVE Pow10(_)
Pow10(n) == IF n = 0 THEN 1 ELSE 10 * Pow10(n - 1)

\* the number of characters after the point; 0 when there is no point
FracDigits(s) ==
    IF Points(s) = {} THEN 0 ELSE Len(s) - (CHOOSE j \in Points(s) : TRUE)

\* the number of decimal digits of |x|
RECURSIVE NumDigits(_)
NumDigits(x) ==
    IF x < 0 THEN NumDigits(-x) ELSE IF x < 10 THEN 1 ELSE 1 + NumDigits(x \div 10)

\* two texts denote the same number
SameValue(a, b) ==
    SignedValue(a) * Pow10(FracDigits(b)) = SignedValue(b) * Pow10(FracDigits(a))

\* C11: format_decimal(x, s) denotes x * 10^s.  For s >= 0 the rendering of
\* x is followed by exactly s zeros.  For s < 0 the text has exactly |s|
\* digits after the point and at least one before it, zeros being padded on
\* the left when x has |s| or fewer digits, and a '-' comes first when
\* x < 0 (x = -5, s = -2 gives "-0.05").
C11_FormatDecimal ==
    fdone =>
      LET neg    == IF fx < 0 THEN 1 ELSE 0
          digits == IF fscale < 0 /\ NumDigits(fx) <= -fscale
                    THEN 1 - fscale ELSE NumDigits(fx)
      IN  /\ IsDigitText(ftext)
          /\ (ftext[1] = "-") <=> (fx < 0)
          /\ \A j \in 2..Len(ftext) : ftext[j] # "-" /\ ftext[j] # "+"
          /\ fscale >= 0 =>
                /\ Points(ftext) = {}
                /\ Len(ftext) = neg + NumDigits(fx) + fscale
                /\ SignedValue(ftext) = fx * Pow10(fscale)
                /\ \A j \in 1..fscale : ftext[Len(ftext) - j + 1] = "0"
          /\ fscale < 0 =>
                /\ Cardinality(Points(ftext)) = 1
                /\ FracDigits(ftext) = -fscale
                /\ Len(ftext) = neg + digits + 1
                /\ Len(ftext) - FracDigits(ftext) - 1 - neg >= 1
                /\ SignedValue(ftext) = fx
          /\ (fx = -5 /\ fscale = -2) => ftext = <<"-", "0", ".", "0", "5">>

\* C11 witness: a negative x with fewer digits than the scale was padded
C11_Witness ==
    /\ fdone /\ fx = -5 /\ fscale = -2
    /\ ftext = <<"-", "0", ".", "0", "5">>

\* a valid decimal text within the width of the accumulator type
ValidDecimal == IsDigitText(dtext) /\ InRange(dkind, SignedValue(dtext))

\* C12 (as claimed): for every valid decimal text within width limits,
\* format_decimal applied to the pair (out, scale) that str2dec returns
\* yields a text that denotes the same number.
C12_Original ==
    (fdone /\ ValidDecimal /\ fscale = dscale) => SameValue(ftext, dtext)

\* C12 (amended): for every valid decimal text within width limits, str2dec
\* succeeds and returns the digits as an integer and the number of digits
\* after the point; format_decimal applied to that integer and to MINUS that
\* number (the wire scale) yields a text that denotes the same number.
C12_ParseThenFormat ==
    (DecDone /\ ValidDecimal)
    => /\ DecSuccess
       /\ dout = SignedValue(dtext)
       /\ dscale = FracDigits(dtext)
       /\ (fdone /\ fscale = -dscale) => SameValue(ftext, dtext)

\* C12 witness: "+1.2" was parsed as (12, 1) and formatted as "1.2"
C12_Witness ==
    /\ fdone /\ fscale = -dscale
    /\ dtext = <<"+", "1", ".", "2">>
    /\ ftext = <<"1", ".", "2">>

(***************************************************************************)
(* Properties of to_isc and from_isc, checked under SpecIsc.               *)
(* tout / fout tell how the to_isc / from_isc call of the behaviour ended  *)
(* ("none": not called); neither call changes T1, the value, the slot's    *)
(* type tag or the scales.                                                 *)
(***************************************************************************)
\* the slot's tag, nullable bit aside, is one of the three exact integer types
IntegerSlot == var_sqltype.tag \in {"SQL_SHORT", "SQL_LONG", "SQL_INT64"}

\* the slot's tag, nullable bit aside, is none of the five numeric types
UnsupportedSlot ==
    var_sqltype.tag \notin {"SQL_SHORT", "SQL_LONG", "SQL_INT64", "SQL_FLOAT", "SQL_DOUBLE"}

\* the scale to_isc works with
EffectiveScale == var_sqlscale + x_scale

\* C13 (as claimed): to_isc rejects with the fractional-to-integral error
\* when the destination is an exact integer type, T1 is an integer type and
\* the effective scale is >= 0.
C13_Original ==
    (tout \notin {"none", "trap"} /\ IntegerSlot /\ ctype = "int" /\ EffectiveScale >= 0)
    => tout = "fractional"

\* C13 (amended): to_isc rejects with the fractional-to-integral error
\* exactly when the destination is an exact integer type, T1 is NOT an
\* integer type (a floating type) and the effective scale is >= 0; for an
\* integer T1 the error is never raised.
C13_EncodeGuard ==
    tout # "none"
    => (tout = "fractional" <=> (IntegerSlot /\ ctype = "double" /\ EffectiveScale >= 0))

\* C13 witness: a double was rejected for a nullable integer slot at scale 0
C13_Witness ==
    /\ tout = "fractional" /\ ctype = "double"
    /\ var_sqltype = [tag |-> "SQL_LONG", bit0 |-> 1]
    /\ EffectiveScale = 0

\* num / den rounded to the nearest integer, ties away from zero (den > 0)
RoundHalfAway(num, den) ==
    LET m == (2 * Abs(num) + den) \div (2 * den)
    IN  IF num < 0 THEN -m ELSE m

\* C14: for every non-integral value v encoded into an exact-integer slot
\* with n >= 1 fractional digits, the integer stored is v * 10^n rounded to
\* the nearest integer, ties away from zero (stated for the values whose
\* product v * 10^n is itself a double, so that the multiplication loses
\* nothing, and whose rounded product fits the slot).
C14_RoundingOnEncode ==
    LET n     == -EffectiveScale
        exact == RoundHalfAway(cval * TenTo(n), Unit)
    IN  (tout = "ok" /\ ctype = "double" /\ IntegerSlot /\ n >= 1
           /\ cval % Unit # 0
           /\ RoundTo(MantBits, cval * TenTo(n), Unit) = cval * TenTo(n)
           /\ exact \in IntRange(TagBits(var_sqltype.tag)))
        => var_sqldata.val = exact

\* what one call does on a slot whose tag is none of the five numeric types
UnsupportedTagStep ==
    /\ (UnsupportedSlot /\ tout = "none" /\ tout' # "none")
          => tout' = "unsupported" /\ var_sqldata' = var_sqldata
    /\ (UnsupportedSlot /\ fout = "none" /\ fout' # "none")
          => fout' = IF ctype = "int" /\ var_sqlscale < 0
                     THEN "fractional" ELSE "unsupported"

\* C15 (as claimed): for every type tag other than the five numeric ones
\* to_isc and from_isc fail with the unsupported-conversion error.
C15_Original ==
    UnsupportedSlot
    => /\ tout # "none" => tout = "unsupported"
       /\ fout # "none" => fout = "unsupported"

\* C15 (amended): for every type tag other than the five numeric ones
\* (lowest bit cleared) to_isc fails with the unsupported-conversion error
\* and leaves the slot's data buffer unchanged; from_isc fails with the
\* unsupported-conversion error unless T1 is an integer type and the scale
\* is < 0, in which case it fails with the fractional-to-integral error,
\* which is checked first.
C15_UnsupportedTag == [][UnsupportedTagStep]_vars

\* C15 witness: both calls failed with the unsupported-conversion error on a
\* text slot
C15_Witness ==
    /\ var_sqltype = [tag |-> "SQL_TEXT", bit0 |-> 1]
    /\ tout = "unsupported" /\ fout = "unsupported"

\* C16: for every type tag and every scale < 0, from_isc<T1> with T1 an
\* integer type fails with the fractional-to-integral error and returns no
\* value; for a scale >= 0, or a floating T1, that error is never raised.
C16_DecodeGuard ==
    fout # "none"
    => /\ fout = "fractional" <=> (ctype = "int" /\ var_sqlscale < 0)
       /\ fout = "fractional" => fret = 0

\* C16 witness: an integer read of a slot with two fractional digits failed
C16_Witness ==
    /\ fout = "fractional" /\ ctype = "int"
    /\ var_sqlscale = -2 /\ var_sqltype.tag = "SQL_INT64"

\* the value is representable without loss in the slot at the slot's scale
Representable ==
    LET s    == var_sqlscale
        bits == TagBits(var_sqltype.tag)
        mant == IF var_sqltype.tag = "SQL_FLOAT" THEN FloatMantBits ELSE MantBits
    IN  IF IntegerSlot
        THEN IF ctype = "int"
             THEN /\ cval % TenTo(s) = 0
                  /\ TruncDiv(cval * TenTo(-s), TenTo(s)) \in IntRange(bits)
             ELSE \E k \in IntRange(bits) :
                     /\ Abs(k) < 2 ^ MantBits
                     /\ cval = RoundTo(MantBits, k, TenTo(-s))
        ELSE IF ctype = "int"
             THEN RoundTo(mant, cval, 1) = cval * Unit
             ELSE RoundTo(mant, cval, Unit) = cval

\* C17: for every type tag, every scale and every value of type T1 that is
\* representable without loss at that scale, from_isc<T1> right after
\* to_isc<T1> (x_scale = 0) on the same slot returns the value (stated for
\* the pairs of calls that both complete without an error).
C17_EncodeDecode ==
    (tout = "ok" /\ fout = "ok" /\ x_scale = 0 /\ Representable)
    => fret = cval

\* C18: whenever the scaled result does not fit the destination width,
\* to_isc fails with an error; it never stores a wrapped bit pattern
\* (stated for an integer T1 whose product fits long long).
C18_NarrowingOnEncode ==
    LET exact == TruncDiv(cval * TenTo(-EffectiveScale), TenTo(EffectiveScale))
    IN  (tout # "none" /\ ctype = "int" /\ IntegerSlot
           /\ cval * TenTo(-EffectiveScale) \in IntRange(Int64Bits)
           /\ exact \notin IntRange(TagBits(var_sqltype.tag)))
        => tout # "ok"


(***************************************************************************)
(* Properties of parse_decimal, checked under SpecParse.                   *)
(***************************************************************************)
\* s matches [+-]?digits(.digits)?
MatchesGrammar(s) ==
    LET u == Unsigned(s)
    IN  /\ Len(u) > 0
        /\ \A j \in 1..Len(u) : u[j] = "." \/ DigitOf(u[j]) >= 0
        /\ Cardinality(Points(s)) <= 1
        /\ u[1] # "."
        /\ u[Len(u)] # "."

\* the str2dec attempt of the given kind ends at the terminator of dtext
AttemptOk(kind) == Str2Dec(dtext, kind).pos = Len(dtext) + 1

\* parse_decimal got past its str2dec attempts and called to_isc
ParseAccepted == pout \notin {"none", "parse_error"}

ParseDecimalStep ==
    (pout = "none" /\ pout' # "none")
    => /\ (pout' = "parse_error") <=> (~AttemptOk("unsigned") /\ ~AttemptOk("signed"))
       /\ AttemptOk("unsigned")
          => /\ pval' = [set |-> TRUE, bits |-> Str2Dec(dtext, "unsigned").out]
             /\ dkind' = "unsigned"
       /\ (~AttemptOk("unsigned") /\ AttemptOk("signed"))
          => /\ pval' = [set |-> TRUE, bits |-> Str2Dec(dtext, "signed").out % DecMod]
             /\ dkind' = "signed"
       /\ (~AttemptOk("unsigned") /\ ~AttemptOk("signed"))
          => /\ pval' = pval
             /\ var_sqldata' = var_sqldata

\* C22: parse_decimal throws "Could not parse decimal value." exactly when
\* the str2dec attempt with UIntType and the one with IntType both fail;
\* when the first succeeds its result is what *val receives and it is the
\* only str2dec call made; when only the second succeeds its result is what
\* *val receives; when both fail neither *val nor the slot's data buffer is
\* written.
C22_DualAttempt == [][ParseDecimalStep]_vars

C22_Witness ==
    /\ pout = "parse_error"
    /\ Len(dtext) > 0
    /\ dkind = "signed"
    /\ ~pval.set
    /\ tout = "none"

\* C23: for every text parse_decimal accepts, the value to_isc<IntType>
\* reads from *val has the sign of the text: it is not positive for a text
\* that starts with '-', and not negative for any other.
C23_SignPreserved ==
    ParseAccepted
    => IF Len(dtext) > 0 /\ dtext[1] = "-" THEN cval <= 0 ELSE cval >= 0

\* the number the text denotes, times 10^digits, rounded half away from zero
\* to an integer
RoundedToDigits(s, digits) ==
    IF FracDigits(s) >= digits
    THEN RoundHalfAway(SignedValue(s), Pow10(FracDigits(s) - digits))
    ELSE SignedValue(s) * Pow10(digits - FracDigits(s))

\* C24: when the text has more fractional digits than the exact-integer slot
\* holds, parse_decimal stores the text's value rounded half away from zero
\* to the slot's number of fractional digits.
C24_ExcessDigitsRounded ==
    (/\ pout = "ok"
     /\ IntegerSlot
     /\ MatchesGrammar(dtext)
     /\ InRange("signed", SignedValue(dtext))
     /\ FracDigits(dtext) > -var_sqlscale
     /\ RoundedToDigits(dtext, -var_sqlscale) \in IntRange(TagBits(var_sqltype.tag)))
    => var_sqldata.val = RoundedToDigits(dtext, -var_sqlscale)

\* C29: for a SQL_FLOAT or SQL_DOUBLE slot, the number parse_decimal stores
\* is the floating-point number nearest to the value the text denotes,
\* whatever sqlscale is.
C29_FloatBypassesScaling ==
    (/\ pout = "ok"
     /\ var_sqltype.tag \in {"SQL_FLOAT", "SQL_DOUBLE"}
     /\ MatchesGrammar(dtext)
     /\ InRange("signed", SignedValue(dtext)))
    => var_sqldata.val =
          RoundTo(IF var_sqltype.tag = "SQL_FLOAT" THEN FloatMantBits ELSE MantBits,
                  SignedValue(dtext), Pow10(FracDigits(dtext)))

(***************************************************************************)
(* Further properties of str2dec, checked under SpecDec.                   *)
(***************************************************************************)
\* C25: whenever str2dec succeeds, out is the signed integer formed by all
\* the digits of the text with the point removed, and scale is the number of
\* digits after the point.
C25_ParseResult ==
    (DecDone /\ DecSuccess)
    => /\ dout = SignedValue(dtext)
       /\ dscale = FracDigits(dtext)

\* C26: str2dec reports success only for texts matching
\* [+-]?digits(.digits)?.
C26_Grammar == (DecDone /\ DecSuccess) => MatchesGrammar(dtext)

(***************************************************************************)
(* format_decimal followed by str2dec, checked under SpecFmt.              *)
(***************************************************************************)
\* C27: for every value x of a signed IntType, its minimum and maximum
\* included, and every scale s < 0, str2dec with a signed accumulator
\* applied to format_decimal(x, s) succeeds and delivers x and the scale -s.
C27_FormatThenParse ==
    (fdone /\ dkind = "signed" /\ fscale < 0)
    => /\ dret = Len(dtext) + 1
       /\ dtext = ftext
       /\ dout = fx
       /\ dscale = -fscale

C27_Witness ==
    /\ fdone
    /\ dkind = "signed"
    /\ fscale < 0
    /\ fx = -(DecMod \div 2)
    /\ dout = fx
    /\ dret = Len(ftext) + 1

(***************************************************************************)
(* Decode scaling, checked under SpecIsc.                                  *)
(***************************************************************************)
\* 10^max(0, -scale) for the slot's scale
DecodeDivisor == IF var_sqlscale < 0 THEN Pow10(-var_sqlscale) ELSE 1

\* q is a double nearest to num / den
NearestDouble(q, num, den) ==
    /\ q \in Doubles
    /\ \A o \in Doubles : Abs(q * den - num * Unit) <= Abs(o * den - num * Unit)

\* C28: when from_isc<T1> raises no error, on an integer tag it returns the
\* stored integer divided by 10^max(0, -scale) and converted to T1 (the
\* stored integer itself when scale >= 0), and on SQL_FLOAT and SQL_DOUBLE
\* it returns the stored number converted to T1, undivided.  The quotient
\* converted to double is stated for stored integers a double holds exactly.
C28_DecodeScaling ==
    fout = "ok"
    => LET stored == var_sqldata.val
       IN  IF IntegerSlot
           THEN IF ctype = "int"
                THEN var_sqlscale >= 0 /\ fret = stored
                ELSE Abs(stored) < 2 ^ MantBits
                     => /\ NearestDouble(fret, stored, DecodeDivisor)
                        /\ var_sqlscale >= 0 => fret = stored * Unit
           ELSE IF ctype = "int"
                THEN /\ Abs(fret) * Unit <= Abs(stored)
                     /\ Abs(stored) < (Abs(fret) + 1) * Unit
                     /\ fret * stored >= 0
                ELSE fret = stored

C28_Witness ==
    /\ fout = "ok"
    /\ ctype = "double"
    /\ IntegerSlot
    /\ var_sqlscale = -MaxSlotScale
    /\ var_sqldata.val = 5
    /\ NearestDouble(fret, 5, Pow10(MaxSlotScale))
    /\ fret # 5 * Unit

(***************************************************************************)
(* Buffer sizing of the integer cases, checked under SpecBuf.              *)
(***************************************************************************)
\* C30: for each integer element type and every value of it, the minimum
\* and the maximum included, the decimal text of the value (with '-' when
\* negative) plus the terminator fits in the buffer pre_use allocates for it
\* (digits10 + 3 bytes, digits10 + 2 for uint64): the text in the buffer is
\* the whole decimal text.
C30_BufferSizing ==
    bdone
    => /\ Len(PrintfDecimal(btype, bvalue)) + 1
             <= Digits10(btype) + (IF btype = "x_uint64" THEN 2 ELSE 3)
       /\ btext = PrintfDecimal(btype, bvalue)

C30_Witness ==
    /\ bdone
    /\ btype = "x_int64"
    /\ bvalue = [top |-> 1, fill |-> 0, low |-> 0]
    /\ btext = <<"-", "9", "2", "2", "3", "3", "7", "2", "0", "3", "6", "8", "5",
                 "4", "7", "7", "5", "8", "0", "8">>
    /\ Len(btext) + 1 = BufSize(btype)

====
